---- MODULE Spec2Model ----
(***************************************************************************)
(* Model of the frame-budgeted task scheduler service of                   *)
(* ember-task-scheduler (addon/services/scheduler.js).                     *)
(*                                                                         *)
(* The service keeps a FIFO array of task entries [target, method, args,   *)
(* stack] and drains it inside requestAnimationFrame callbacks.  A frame   *)
(* callback (_loop) is modelled in steps, because the task bodies it calls *)
(* may call back into schedule / scheduleOnce / cancel or destroy the      *)
(* service: _loop(h) is the entry of the callback up to the first task     *)
(* body, TaskReturn / TaskRaise are the end of one task body followed by   *)
(* the rest of _exec and the rest of the do-while loop of _loop.           *)
(***************************************************************************)
EXTENDS Integers, Sequences, FiniteSets

\* ---------------------------------------------------------------- bounds
\* Longest queue of the specification without history (Spec).
MaxQueue == 3

\* Number of schedule / scheduleOnce calls in one behaviour of the
\* specifications that record the history (TracedSpec, FairSpec).
MaxCalls == 3

\* Number of frame requests the host holds at one time.
MaxFrames == 2

\* Number of evaluations of the conditional in one waitFor call.
MaxPolls == 3

\* ------------------------------------------------------------- constants
DefaultFPS == 60
MILLISECONDS == 1000

\* JavaScript values that occur in the model.
NULL == "null"
UNDEFINED == "undefined"
Functions == {"M", "N"}
Strings == {"m", "n", "k", "a", "b"}

\* Durations (in milliseconds) a task body may take: a light task and a
\* task that overruns the frame of the default rate.
Durations == {0, 20}

\* Values the FPS property is set to: 0 for a value that is unset or
\* falsy, and the two rates of the tests.
Rates == {0, 30, 60}

\* Argument lists handed to schedule and scheduleOnce: a bare function, or a
\* target object with a method name and one argument.
Argvs == {<<"M">>, <<"T", "m", "a">>, <<"T", "m", "b">>, <<"T", "n", "a">>}

\* Argument lists handed to scheduleOnce: one pair, with either argument.
OnceArgvs == {<<"T", "m", "a">>, <<"T", "m", "b">>}

\* Argument lists of two methods of one target.
TargetArgvs == {<<"T", "m", "a">>, <<"T", "n", "a">>}

\* Argument lists that tell targets, method names and functions apart: a
\* bare function, a name of the target that resolves to that function, and
\* a second name that resolves to it as long as the first one is not
\* reassigned.
IdentityArgvs == {<<"M">>, <<"T", "k", "a">>, <<"T", "m", "b">>}

\* Argument lists handed to cancel.
CancelArgvs == {<<"M">>, <<"T", "m">>, <<"T", "n">>}

\* Argument lists from which no callable can be resolved: no argument at
\* all, a method name on a null target, a property that is not a function.
BadArgvs == {<<>>, <<NULL, "m">>, <<"T", "a">>}

\* Argument lists whose first argument is a function: alone, followed by
\* a string, followed by another function.
FunctionArgvs == {<<"M">>, <<"M", "a">>, <<"M", "N">>}

\* Values the onError property of the service can be created with: unset,
\* a hook that returns, a hook that rethrows the error it is given.
OnErrorHooks == {"null", "returns", "rethrows"}

Environments == {"development", "production"}

\* What one evaluation of the conditional of waitFor does: it returns a
\* value or throws one.  JavaScript throws any value, an Error object or not.
Outcomes ==
    [kind : {"return"}, value : {"false", UNDEFINED, "true", "ready"}]
        \cup [kind : {"throw"}, value : {"Error", UNDEFINED}]

\* The wait and timeout arguments of waitFor: 0 and the default wait, the
\* default timeout (none) and one that is set.
Waits == {0, 50}
Timeouts == {0, 200}

VARIABLES
    _tasks,            \* the service's array of task entries
    _currentInstance,  \* id of the current frame request, 0 for null
    isDestroyed,       \* the service was torn down
    onError,           \* the error hook of the service
    environment,       \* config.environment
    FPS,               \* config.taskScheduler.FPS, 0 when unset
    methods,           \* the functions that the properties of target T hold
    pendingFrames,     \* host: frame requests neither fired nor cancelled
    pc,                \* "idle", or "exec" while a task body is running
    cur,               \* the entry shifted off the queue and being executed
    elapsed,           \* performance.now() - startTime of the running frame
    assertFailed,      \* the method of the service that failed an assertion
                       \* or threw on its own in the last step, if any
    admissions,        \* history: schedule / scheduleOnce calls that returned
    fired,             \* history: number of frame callbacks the host fired
    executed,          \* history: entries executed, in order
    hookCalls,         \* history: invocations of the onError hook
    waiter,            \* waitFor: the promise and the closure of one call
    polls              \* history: outcomes of the evaluations of conditional

\* What the service is given: its hook, its configuration, and the target
\* object of the calls with the functions its properties hold.
config == <<onError, environment, FPS, methods>>
service == <<_tasks, _currentInstance, isDestroyed, config>>
drain == <<pc, cur, elapsed>>
history == <<admissions, fired, executed, hookCalls>>
\* The waitFor helper, which no method of the service touches.
helper == <<waiter, polls>>

vars == <<service, pendingFrames, drain, assertFailed, history, helper>>

NoTask == [target |-> NULL, method |-> UNDEFINED, args |-> <<>>, stack |-> 0, id |-> 0]

\* hasPendingTasks as it would be if it told whether the frame loop is
\* started.
hasPendingTasks_whileStarted == _currentInstance # 0

\* hasPendingTasks(): _tasks.length !== 0
hasPendingTasks == Len(_tasks) # 0

\* ------------------------------------------------------- pure functions

IsFunction(v) == v \in Functions

IsString(v) == v \in Strings

\* Property lookup obj[name] on the objects of the model.
GetProperty(obj, name) ==
    IF obj = "T" /\ name \in DOMAIN methods THEN methods[name]
    ELSE UNDEFINED

\* millisecondsPerFrame as it would be if it never read the FPS property.
millisecondsPerFrame_default == [num |-> MILLISECONDS, den |-> DefaultFPS]

\* millisecondsPerFrame: 1 / fps * MILLISECONDS, kept as the fraction
\* num / den of milliseconds (the rounding of the floating-point operations
\* is left out).
millisecondsPerFrame ==
    LET fps == IF FPS # 0 THEN FPS ELSE DefaultFPS
    IN  [num |-> MILLISECONDS, den |-> fps]

\* now < budget, for a whole number of milliseconds and a fraction.
Under(now, budget) == now * budget.den < budget.num

\* _sliceArguments: [target, method, args] of an argument list, with
\* threw = TRUE when the call throws instead of returning (property lookup
\* on null or undefined, or the assertion on the method in development).
_sliceArguments(argv) ==
    LET length == Len(argv)
        target0 == IF length >= 1 THEN argv[1] ELSE UNDEFINED
        method0 == IF length >= 2 THEN argv[2] ELSE UNDEFINED
        args == IF length > 2 THEN SubSeq(argv, 3, length) ELSE <<>>
        target == IF length = 1 THEN NULL ELSE target0
        method1 == IF length = 1 THEN target0 ELSE method0
        typeError == IsString(method1) /\ target \in {NULL, UNDEFINED}
        method == IF IsString(method1) THEN GetProperty(target, method1) ELSE method1
        assertion == environment = "development" /\ ~IsFunction(method)
    IN  [threw |-> typeError \/ assertion, target |-> target, method |-> method, args |-> args]

\* Matches as it would be if cancel compared the targets only.
Matches_targetOnly(entry, target, method) == entry.target = target

\* The comparison of cancel and _pushUnique: same target, same callable.
Matches(entry, target, method) == entry.target = target /\ entry.method = method

\* The first loop of cancel: the indexes of the matching entries.
RECURSIVE removedIndexes(_, _, _, _)
removedIndexes(tasks, target, method, i) ==
    IF i > Len(tasks) THEN <<>>
    ELSE IF Matches(tasks[i], target, method)
         THEN <<i>> \o removedIndexes(tasks, target, method, i + 1)
         ELSE removedIndexes(tasks, target, method, i + 1)

\* tasks.splice(index, 1): the array after the call.
splice(tasks, index) ==
    IF index <= Len(tasks)
    THEN SubSeq(tasks, 1, index - 1) \o SubSeq(tasks, index + 1, Len(tasks))
    ELSE tasks

\* tasks.splice(index, 1): the array of removed elements it returns.
spliced(tasks, index) ==
    IF index <= Len(tasks) THEN <<tasks[index]>> ELSE <<>>

\* The second loop of cancel: splice at each recorded index, in order, on
\* the array as the earlier splices left it.
RECURSIVE removeTasks(_, _)
removeTasks(tasks, indexes) ==
    IF indexes = <<>> THEN tasks
    ELSE removeTasks(splice(tasks, Head(indexes)), Tail(indexes))

\* The value cancel returns: one item per recorded index, each the array
\* that splice returned.
RECURSIVE removedTasks(_, _)
removedTasks(tasks, indexes) ==
    IF indexes = <<>> THEN <<>>
    ELSE <<spliced(tasks, Head(indexes))>>
         \o removedTasks(splice(tasks, Head(indexes)), Tail(indexes))

\* An entry as the array _sliceArguments returned for it.
entryArray(entry) == <<entry.target, entry.method, entry.args, entry.stack>>

\* The array cancel(argv) returns on the queue tasks: removedTasks, with
\* every entry written as the array it is.
cancelReturn(tasks, argv) ==
    LET p == _sliceArguments(argv)
        r == removedTasks(tasks, removedIndexes(tasks, p.target, p.method, 1))
    IN  [i \in DOMAIN r |-> [k \in DOMAIN r[i] |-> entryArray(r[i][k])]]

\* Index of the first entry of tasks that matches, 0 if none.
RECURSIVE firstMatch(_, _, _, _)
firstMatch(tasks, target, method, i) ==
    IF i > Len(tasks) THEN 0
    ELSE IF Matches(tasks[i], target, method) THEN i
    ELSE firstMatch(tasks, target, method, i + 1)

\* push as it would be if schedule dropped a task whose pair is pending.
push_unlessPending(tasks, params) ==
    IF firstMatch(tasks, params.target, params.method, 1) # 0 THEN tasks
    ELSE Append(tasks, params)

\* tasks.push(params)
push(tasks, params) == Append(tasks, params)

\* _pushUnique as it would be if a duplicate kept its first arguments.
_pushUnique_keepArgs(tasks, params) ==
    IF firstMatch(tasks, params.target, params.method, 1) # 0 THEN tasks
    ELSE push(tasks, params)

\* _pushUnique as it would be if a duplicate were removed and the task
\* pushed at the tail.
_pushUnique_moveToTail(tasks, params) ==
    LET i == firstMatch(tasks, params.target, params.method, 1)
    IN  IF i # 0 THEN push(splice(tasks, i), params) ELSE push(tasks, params)

\* _pushUnique as it would be without the search for a duplicate.
_pushUnique_noSearch(tasks, params) == push(tasks, params)

\* _pushUnique: replace args and stack of the first matching entry, or push.
_pushUnique(tasks, params) ==
    LET i == firstMatch(tasks, params.target, params.method, 1)
    IN  IF i # 0
        THEN [tasks EXCEPT ![i].args = params.args, ![i].stack = params.stack]
        ELSE push(tasks, params)

\* The truth value JavaScript gives a value in a condition.
Truthy(value) == value \notin {NULL, UNDEFINED, "false"}

\* runConditional: [null, ret] when conditional returns, [e, null] when it
\* throws e.
runConditional(outcome) ==
    IF outcome.kind = "throw" THEN <<outcome.value, NULL>> ELSE <<NULL, outcome.value>>

\* runTimeout(func, wait): the host function that is handed func.
runTimeout(wait) == IF wait = 0 THEN "requestAnimationFrame" ELSE "setTimeout"

\* The promise waitFor returns, before the call and when it is created.
NoPromise == [state |-> "none", value |-> NULL]
NewPromise == [state |-> "pending", value |-> NULL]

\* resolve(value) and reject(reason) of the promise: a promise that is
\* settled stays as it is.
resolve(promise, value) ==
    IF promise.state = "pending" THEN [state |-> "fulfilled", value |-> value] ELSE promise

reject(promise, reason) ==
    IF promise.state = "pending" THEN [state |-> "rejected", value |-> reason] ELSE promise

\* The closure of a waitFor call that was not made yet.
NoWaiter ==
    [promise |-> NoPromise, cancel |-> FALSE, wait |-> 0, timeout |-> 0,
     tick |-> "none", timer |-> FALSE]

\* ------------------------------------------------------------- the state

Init ==
    /\ _tasks = <<>>
    /\ _currentInstance = 0
    /\ isDestroyed = FALSE
    /\ onError \in OnErrorHooks
    /\ environment \in Environments
    /\ FPS = 0
    /\ methods = [m |-> "M", n |-> "N", k |-> "M"]
    /\ pendingFrames = {}
    /\ pc = "idle"
    /\ cur = NoTask
    /\ elapsed = 0
    /\ assertFailed = "none"
    /\ admissions = <<>>
    /\ fired = 0
    /\ executed = <<>>
    /\ hookCalls = <<>>
    /\ waiter = NoWaiter
    /\ polls = <<>>

\* ------------------------------------------------- the host's frame requests

\* Ids requestAnimationFrame can hand out: the host never returns an id that
\* is outstanding, and an id the service still holds is never returned again.
FreeIds == (1..MaxFrames) \ (pendingFrames \cup {_currentInstance})

\* requestAnimationFrame(callback): the id it returns.
requestAnimationFrame == CHOOSE id \in FreeIds : \A other \in FreeIds : id <= other

\* cancelAnimationFrame(id): the outstanding requests after the call.
cancelAnimationFrame(id) == pendingFrames \ {id}

\* scheduleFrame followed by the assignment of its result to _currentInstance.
scheduleFrame ==
    /\ FreeIds # {}
    /\ pendingFrames' = pendingFrames \cup {requestAnimationFrame}
    /\ _currentInstance' = requestAnimationFrame

\* ------------------------------------------------------ the service's methods

\* _begin, called by schedule and scheduleOnce when the handle they read is null.
_begin == scheduleFrame

\* _next: request the next frame.
_next ==
    /\ scheduleFrame
    /\ assertFailed' = IF _currentInstance = 0 THEN "_next" ELSE "none"

\* _end: cancelAnimationFrame on the handle, then clear it.
_end ==
    /\ pendingFrames' = cancelAnimationFrame(_currentInstance)
    /\ _currentInstance' = 0

\* The entry _sliceArguments returns for the call that follows the calls
\* recorded so far; the Error object captured in development is identified
\* by the number of the call, and id is that number too.
Params(argv) ==
    LET p == _sliceArguments(argv)
        n == Len(admissions) + 1
    IN  [target |-> p.target, method |-> p.method, args |-> p.args,
         stack |-> IF environment = "development" THEN n ELSE 0,
         id |-> n]

schedule(argv) ==
    /\ ~_sliceArguments(argv).threw
    /\ _tasks' = push(_tasks, Params(argv))
    /\ IF _currentInstance = 0 THEN _begin
       ELSE UNCHANGED <<_currentInstance, pendingFrames>>
    /\ assertFailed' = "none"
    /\ UNCHANGED <<isDestroyed, config, helper, drain>>

scheduleOnce(argv) ==
    /\ ~_sliceArguments(argv).threw
    /\ _tasks' = _pushUnique(_tasks, Params(argv))
    /\ IF _currentInstance = 0 THEN _begin
       ELSE UNCHANGED <<_currentInstance, pendingFrames>>
    /\ assertFailed' = "none"
    /\ UNCHANGED <<isDestroyed, config, helper, drain>>

\* A schedule or scheduleOnce call that _sliceArguments leaves by an
\* exception, before anything is pushed or requested.
admissionError(argv) ==
    /\ _sliceArguments(argv).threw
    /\ assertFailed' = "_sliceArguments"
    /\ UNCHANGED <<service, pendingFrames, drain, helper>>

cancel(argv) ==
    LET p == _sliceArguments(argv)
        indexes == removedIndexes(_tasks, p.target, p.method, 1)
        tasks == removeTasks(_tasks, indexes)
    IN  /\ ~p.threw
        /\ _tasks' = tasks
        /\ IF _currentInstance # 0 /\ Len(tasks) = 0 THEN _end
           ELSE UNCHANGED <<_currentInstance, pendingFrames>>
        /\ assertFailed' = "none"
    /\ UNCHANGED <<isDestroyed, config, helper, drain>>

\* Teardown of the service by its owner.
destroy ==
    /\ ~isDestroyed
    /\ isDestroyed' = TRUE
    /\ assertFailed' = "none"
    /\ UNCHANGED <<_tasks, _currentInstance, config, helper, pendingFrames, drain>>

\* shift as it would be if the loop read the first entry and left it in
\* the queue (tasks[0]).
shift_peek(tasks) == [entry |-> Head(tasks), rest |-> tasks]

\* shift as it would be if the loop took the last entry (tasks.pop()).
shift_pop(tasks) ==
    [entry |-> tasks[Len(tasks)], rest |-> SubSeq(tasks, 1, Len(tasks) - 1)]

\* tasks.shift(): the entry taken and the array left.
shift(tasks) == [entry |-> Head(tasks), rest |-> Tail(tasks)]

\* One iteration of the do-while loop of _loop up to the task body: shift
\* the first entry and have _exec call it.
ShiftAndCall ==
    /\ cur' = shift(_tasks).entry
    /\ _tasks' = shift(_tasks).rest
    /\ pc' = "exec"

\* The frame callback returns, or is left by an exception.
LeaveFrame ==
    /\ pc' = "idle"
    /\ cur' = NoTask
    /\ elapsed' = 0

\* _loop as it would be with a while loop, which compares the elapsed
\* time with the budget before the first task too.
_loop_while(h) ==
    /\ pc = "idle"
    /\ h \in pendingFrames
    /\ pendingFrames' = pendingFrames \ {h}
    /\ UNCHANGED <<_currentInstance, isDestroyed, config, helper>>
    /\ assertFailed' = "none"
    /\ \E start \in Durations :
         IF ~isDestroyed /\ Len(_tasks) > 0 /\ Under(start, millisecondsPerFrame)
         THEN ShiftAndCall /\ elapsed' = start
         ELSE UNCHANGED <<_tasks, drain>>

\* The host fires the frame callback of request h: _loop up to the first
\* task body.  startTime is the time stamp of the frame, not of the call:
\* the callback starts with performance.now() - startTime already at some
\* value, which is an input of the callback.
_loop(h) ==
    /\ pc = "idle"
    /\ h \in pendingFrames
    /\ pendingFrames' = pendingFrames \ {h}
    /\ UNCHANGED <<_currentInstance, isDestroyed, config, helper>>
    /\ IF isDestroyed
       THEN assertFailed' = "none" /\ UNCHANGED <<_tasks, drain>>
       ELSE IF Len(_tasks) = 0
       THEN \* the assertion on tasks.length fails (where assertions are
            \* stripped, destructuring the undefined result of shift throws)
            /\ assertFailed' = "_loop"
            /\ UNCHANGED <<_tasks, drain>>
       ELSE /\ ShiftAndCall
            /\ elapsed' \in Durations
            /\ assertFailed' = "none"

\* Continue as it would be if _loop never looked at isDestroyed after a
\* task.
Continue_ignoreDestroyed(now) ==
    IF Len(_tasks) > 0 /\ Under(now, millisecondsPerFrame)
    THEN /\ ShiftAndCall
         /\ elapsed' = now
         /\ UNCHANGED <<_currentInstance, pendingFrames>> /\ assertFailed' = "none"
    ELSE /\ LeaveFrame
         /\ UNCHANGED _tasks
         /\ IF Len(_tasks) > 0 THEN _next
            ELSE IF _currentInstance # 0 THEN _end /\ assertFailed' = "none"
            ELSE UNCHANGED <<_currentInstance, pendingFrames>> /\ assertFailed' = "none"

\* Continue as it would be if the loop went on whatever the time.
Continue_noBudget(now) ==
    IF ~isDestroyed /\ Len(_tasks) > 0
    THEN /\ ShiftAndCall
         /\ elapsed' = now
         /\ UNCHANGED <<_currentInstance, pendingFrames>> /\ assertFailed' = "none"
    ELSE /\ LeaveFrame
         /\ UNCHANGED _tasks
         /\ IF isDestroyed THEN UNCHANGED <<_currentInstance, pendingFrames>> /\ assertFailed' = "none"
            ELSE IF _currentInstance # 0 THEN _end /\ assertFailed' = "none"
            ELSE UNCHANGED <<_currentInstance, pendingFrames>> /\ assertFailed' = "none"

\* The rest of _loop once a task body and _exec are over, with now the
\* time elapsed since the start of the frame.
Continue(now) ==
    IF ~isDestroyed /\ Len(_tasks) > 0 /\ Under(now, millisecondsPerFrame)
    THEN /\ ShiftAndCall
         /\ elapsed' = now
         /\ UNCHANGED <<_currentInstance, pendingFrames>> /\ assertFailed' = "none"
    ELSE /\ LeaveFrame
         /\ UNCHANGED _tasks
         /\ IF isDestroyed THEN UNCHANGED <<_currentInstance, pendingFrames>> /\ assertFailed' = "none"
            ELSE IF Len(_tasks) > 0 THEN _next
            ELSE IF _currentInstance # 0 THEN _end /\ assertFailed' = "none"
            ELSE UNCHANGED <<_currentInstance, pendingFrames>> /\ assertFailed' = "none"

\* exec as it would be without the try block: every error leaves it.
exec_noCatch(hook) == "rethrown"

\* exec as it would be if the catch clause never called the hook.
exec_noHook(hook) == "swallowed"

\* exec: what the catch clause does with an error raised by the task body:
\* it is "swallowed" when there is no hook, "handled" by a hook that
\* returns, "rethrown" by a hook that throws.
exec(hook) ==
    IF hook = "null" THEN "swallowed"
    ELSE IF hook = "rethrows" THEN "rethrown"
    ELSE "handled"

\* _exec: the calls it makes on the run loop around a task body with the
\* given outcome: run.begin() before exec, and run.end() when exec has
\* returned, which it does not when the hook rethrows.
runLoopCalls(outcome, hook) ==
    IF outcome = "raised" /\ exec(hook) = "rethrown"
    THEN <<"begin">>
    ELSE <<"begin", "end">>

\* _exec: whether it logs the warning about a callback that took dt
\* milliseconds: in development, once exec and run.end() have returned,
\* unless dt is under the budget.
overrunWarning(outcome, hook, dt) ==
    /\ environment = "development"
    /\ runLoopCalls(outcome, hook) = <<"begin", "end">>
    /\ ~Under(dt, millisecondsPerFrame)

\* A task body returns after dt milliseconds; method.apply on a value that
\* is not a function throws instead.
TaskReturn(dt) ==
    /\ pc = "exec"
    /\ IsFunction(cur.method)
    /\ Continue(elapsed + dt)
    /\ UNCHANGED <<isDestroyed, config, helper>>

\* A task body raises after dt milliseconds.  An error the hook rethrows
\* leaves exec, _exec and _loop.
TaskRaise(dt) ==
    /\ pc = "exec"
    /\ IF exec(onError) = "rethrown"
       THEN /\ LeaveFrame
            /\ assertFailed' = "none"
            /\ UNCHANGED <<_tasks, _currentInstance, pendingFrames>>
       ELSE Continue(elapsed + dt)
    /\ UNCHANGED <<isDestroyed, config, helper>>

\* ------------------------------------------------------------------ waitFor

\* waitFor(conditional, wait, timeout): the promise is created, the first
\* checkConditional is handed to the host and, with a timeout, the timer of
\* the timeout is started.  tick is the host function that holds the pending
\* checkConditional, timer tells whether the timer of the timeout is pending.
waitFor(wait, timeout) ==
    /\ waiter.promise.state = "none"
    /\ waiter' = [promise |-> NewPromise, cancel |-> FALSE,
                  wait |-> wait, timeout |-> timeout,
                  tick |-> runTimeout(wait), timer |-> timeout # 0]
    /\ UNCHANGED <<service, pendingFrames, drain, assertFailed, history, polls>>

\* checkConditional without the test of the cancel flag.
checkConditional_uncancelled ==
    /\ waiter.tick # "none"
    /\ \E outcome \in Outcomes :
         LET err == runConditional(outcome)[1]
             ret == runConditional(outcome)[2]
         IN  /\ Len(polls) < MaxPolls
             /\ polls' = Append(polls, outcome)
             /\ waiter' =
                  IF Truthy(err)
                  THEN [waiter EXCEPT !.promise = reject(@, err), !.tick = "none"]
                  ELSE IF Truthy(ret)
                       THEN [waiter EXCEPT !.promise = resolve(@, ret), !.tick = "none"]
                       ELSE [waiter EXCEPT !.tick = runTimeout(waiter.wait)]
    /\ UNCHANGED <<service, pendingFrames, drain, assertFailed, history>>

\* The host calls the pending checkConditional: nothing when the timeout
\* has set cancel; otherwise conditional is evaluated once, and the promise
\* is rejected with a truthy err, resolved with a truthy ret, or
\* checkConditional is handed to the host again.
checkConditional ==
    /\ waiter.tick # "none"
    /\ IF waiter.cancel
       THEN /\ waiter' = [waiter EXCEPT !.tick = "none"]
            /\ UNCHANGED polls
       ELSE \E outcome \in Outcomes :
              LET err == runConditional(outcome)[1]
                  ret == runConditional(outcome)[2]
              IN  /\ Len(polls) < MaxPolls
                  /\ polls' = Append(polls, outcome)
                  /\ waiter' =
                       IF Truthy(err)
                       THEN [waiter EXCEPT !.promise = reject(@, err), !.tick = "none"]
                       ELSE IF Truthy(ret)
                            THEN [waiter EXCEPT !.promise = resolve(@, ret), !.tick = "none"]
                            ELSE [waiter EXCEPT !.tick = runTimeout(waiter.wait)]
    /\ UNCHANGED <<service, pendingFrames, drain, assertFailed, history>>

\* The host calls the function of the timer of the timeout: cancel is set
\* and the promise rejected with the timeout error.
timeoutElapsed ==
    /\ waiter.timer
    /\ waiter' = [waiter EXCEPT !.timer = FALSE, !.cancel = TRUE,
                                !.promise = reject(@, "timeout")]
    /\ UNCHANGED <<service, pendingFrames, drain, assertFailed, history, polls>>

\* ------------------------------------------- the service, without history

Schedule(argv) == Len(_tasks) < MaxQueue /\ schedule(argv) /\ UNCHANGED history

ScheduleOnce(argv) == Len(_tasks) < MaxQueue /\ scheduleOnce(argv) /\ UNCHANGED history

Cancel(argv) == cancel(argv) /\ UNCHANGED history

Destroy == destroy /\ UNCHANGED history

Frame(h) == _loop(h) /\ UNCHANGED history

Return(dt) == TaskReturn(dt) /\ UNCHANGED history

Raise(dt) == TaskRaise(dt) /\ UNCHANGED history

Next ==
    \/ \E argv \in Argvs : Schedule(argv)
    \/ \E argv \in OnceArgvs : ScheduleOnce(argv)
    \/ \E argv \in CancelArgvs : Cancel(argv)
    \/ Destroy
    \/ \E h \in pendingFrames : Frame(h)
    \/ \E dt \in Durations : Return(dt)
    \/ \E dt \in Durations : Raise(dt)

\* Without history the environment shows in the stack of the entries only:
\* the service is observed in production, where no stack is captured.
UntracedInit == Init /\ environment = "production"

Spec == UntracedInit /\ [][Next]_vars

\* ------------------ the service without history, in both environments,
\* with calls from which no callable can be resolved, without cancel and
\* without teardown.

Admit(argv) ==
    /\ Len(_tasks) < MaxQueue
    /\ schedule(argv) \/ admissionError(argv)
    /\ UNCHANGED history

AdmitOnce(argv) ==
    /\ Len(_tasks) < MaxQueue
    /\ scheduleOnce(argv) \/ admissionError(argv)
    /\ UNCHANGED history

AdmissionNext ==
    \/ \E argv \in Argvs \cup BadArgvs \cup FunctionArgvs : Admit(argv)
    \/ \E argv \in OnceArgvs \cup BadArgvs \cup FunctionArgvs : AdmitOnce(argv)
    \/ \E h \in pendingFrames : Frame(h)
    \/ \E dt \in Durations : Return(dt)
    \/ \E dt \in Durations : Raise(dt)

AdmissionSpec == Init /\ [][AdmissionNext]_vars

\* ----------------------------- the service observed: calls and executions
\* are recorded, in behaviours of at most MaxCalls admissions, without
\* cancel and without teardown, in development, where every call captures
\* its stack.

TracedInit == Init /\ environment = "development"

\* The record of a schedule or scheduleOnce call: id is the entry the call
\* created or, for a scheduleOnce that found a duplicate, rewrote.
Admission(argv, once) ==
    LET params == Params(argv)
        i == firstMatch(_tasks, params.target, params.method, 1)
    IN  [target |-> params.target, method |-> params.method, args |-> params.args,
         stack |-> params.stack, once |-> once,
         id |-> IF once /\ i # 0 THEN _tasks[i].id ELSE params.id]

Execution(outcome) ==
    [id |-> cur.id, target |-> cur.target, method |-> cur.method, args |-> cur.args,
     stack |-> cur.stack, frame |-> fired, outcome |-> outcome,
     run |-> runLoopCalls(outcome, onError)]

TracedSchedule(argv) ==
    /\ Len(admissions) < MaxCalls
    /\ schedule(argv)
    /\ admissions' = Append(admissions, Admission(argv, FALSE))
    /\ UNCHANGED <<fired, executed, hookCalls>>

TracedScheduleOnce(argv) ==
    /\ Len(admissions) < MaxCalls
    /\ scheduleOnce(argv)
    /\ admissions' = Append(admissions, Admission(argv, TRUE))
    /\ UNCHANGED <<fired, executed, hookCalls>>

TracedFrame(h) ==
    /\ _loop(h)
    /\ fired' = fired + 1
    /\ UNCHANGED <<admissions, executed, hookCalls>>

TracedReturn(dt) ==
    /\ TaskReturn(dt)
    /\ executed' = Append(executed, Execution("returned"))
    /\ UNCHANGED <<admissions, fired, hookCalls>>

TracedRaise(dt) ==
    /\ TaskRaise(dt)
    /\ executed' = Append(executed, Execution("raised"))
    /\ hookCalls' = IF exec(onError) = "swallowed" THEN hookCalls
                    ELSE Append(hookCalls, [error |-> cur.id, stack |-> cur.stack])
    /\ UNCHANGED <<admissions, fired>>

TracedNext ==
    \/ \E argv \in Argvs : TracedSchedule(argv)
    \/ \E argv \in OnceArgvs : TracedScheduleOnce(argv)
    \/ \E h \in pendingFrames : TracedFrame(h)
    \/ \E dt \in Durations : TracedReturn(dt)
    \/ \E dt \in Durations : TracedRaise(dt)

TracedSpec == TracedInit /\ [][TracedNext]_vars

\* The host fires every outstanding frame callback and task bodies end.
FairSpec ==
    /\ TracedSpec
    /\ WF_vars(\E h \in pendingFrames : TracedFrame(h))
    /\ WF_vars(\E dt \in Durations : TracedReturn(dt) \/ TracedRaise(dt))

\* ------------------- the service observed, with the place of every call:
\* plain schedule calls only, each recorded with the frame callback that
\* was the last to start when it was made and with whether a task body
\* made it.

ReentrantAdmission(argv) ==
    LET a == Admission(argv, FALSE)
    IN  [target |-> a.target, method |-> a.method, args |-> a.args,
         stack |-> a.stack, once |-> a.once, id |-> a.id,
         frame |-> fired, inTask |-> pc = "exec"]

ReentrantSchedule(argv) ==
    /\ Len(admissions) < MaxCalls
    /\ schedule(argv)
    /\ admissions' = Append(admissions, ReentrantAdmission(argv))
    /\ UNCHANGED <<fired, executed, hookCalls>>

ReentrantNext ==
    \/ \E argv \in Argvs : ReentrantSchedule(argv)
    \/ \E h \in pendingFrames : TracedFrame(h)
    \/ \E dt \in Durations : TracedReturn(dt)
    \/ \E dt \in Durations : TracedRaise(dt)

ReentrantSpec == TracedInit /\ [][ReentrantNext]_vars

\* ------------------- the service observed, with cancel: plain schedule
\* calls and cancel calls, without teardown.

TracedCancel(argv) == cancel(argv) /\ UNCHANGED history

CancelNext ==
    \/ \E argv \in TargetArgvs : TracedSchedule(argv)
    \/ \E argv \in CancelArgvs : TracedCancel(argv)
    \/ \E h \in pendingFrames : TracedFrame(h)
    \/ \E dt \in Durations : TracedReturn(dt)
    \/ \E dt \in Durations : TracedRaise(dt)

CancelSpec == TracedInit /\ [][CancelNext]_vars

\* ------------------- the service observed, with the names of the calls:
\* scheduleOnce calls only, each recorded with the method name it was given
\* and the entries that were pending when it was made, on a target whose
\* property 'm' is reassigned between calls.  Task bodies return and the
\* service has no hook.

\* The application assigns another function to T.m.
Rebind ==
    /\ methods' = [methods EXCEPT !.m = IF @ = "M" THEN "N" ELSE "M"]
    /\ assertFailed' = "none"
    /\ UNCHANGED <<_tasks, _currentInstance, isDestroyed, onError, environment, FPS>>
    /\ UNCHANGED <<pendingFrames, drain, history, helper>>

IdentityAdmission(argv) ==
    LET a == Admission(argv, TRUE)
    IN  [target |-> a.target, method |-> a.method, args |-> a.args,
         stack |-> a.stack, once |-> a.once, id |-> a.id,
         name |-> IF Len(argv) = 1 THEN NULL ELSE argv[2],
         pending |-> {_tasks[k].id : k \in DOMAIN _tasks}]

IdentityScheduleOnce(argv) ==
    /\ Len(admissions) < MaxCalls
    /\ scheduleOnce(argv)
    /\ admissions' = Append(admissions, IdentityAdmission(argv))
    /\ UNCHANGED <<fired, executed, hookCalls>>

IdentityNext ==
    \/ \E argv \in IdentityArgvs : IdentityScheduleOnce(argv)
    \/ Rebind
    \/ \E h \in pendingFrames : TracedFrame(h)
    \/ \E dt \in Durations : TracedReturn(dt)

IdentityInit == TracedInit /\ onError = "null"

IdentitySpec == IdentityInit /\ [][IdentityNext]_vars

\* ------------------- the service observed, with a rate that changes:
\* plain schedule calls of one function, and the FPS property set between
\* frame callbacks.  (_loop reads millisecondsPerFrame once, when the
\* callback starts: a rate set by a task body would not reach the callback
\* that is running.)

\* service.set('FPS', rate), while no frame callback is running.
setFPS(rate) ==
    /\ pc = "idle"
    /\ rate # FPS
    /\ FPS' = rate
    /\ assertFailed' = "none"
    /\ UNCHANGED <<_tasks, _currentInstance, isDestroyed, onError, environment, methods>>
    /\ UNCHANGED <<pendingFrames, drain, history, helper>>

RateNext ==
    \/ \E argv \in {<<"M">>} : TracedSchedule(argv)
    \/ \E rate \in Rates : setFPS(rate)
    \/ \E h \in pendingFrames : TracedFrame(h)
    \/ \E dt \in Durations : TracedReturn(dt)
    \/ \E dt \in Durations : TracedRaise(dt)

RateSpec == TracedInit /\ [][RateNext]_vars

\* ------------------- the service observed in both environments, with
\* the duration of every task body and the warning logged about it.

DiagnosedExecution(outcome, dt) ==
    LET e == Execution(outcome)
    IN  [id |-> e.id, target |-> e.target, method |-> e.method, args |-> e.args,
         stack |-> e.stack, frame |-> e.frame, outcome |-> e.outcome, run |-> e.run,
         duration |-> dt, warned |-> overrunWarning(outcome, onError, dt)]

DiagnosedReturn(dt) ==
    /\ TaskReturn(dt)
    /\ executed' = Append(executed, DiagnosedExecution("returned", dt))
    /\ UNCHANGED <<admissions, fired, hookCalls>>

DiagnosedRaise(dt) ==
    /\ TaskRaise(dt)
    /\ executed' = Append(executed, DiagnosedExecution("raised", dt))
    /\ hookCalls' = IF exec(onError) = "swallowed" THEN hookCalls
                    ELSE Append(hookCalls, [error |-> cur.id, stack |-> cur.stack])
    /\ UNCHANGED <<admissions, fired>>

DiagnosticsNext ==
    \/ \E argv \in Argvs : TracedSchedule(argv)
    \/ \E argv \in OnceArgvs : TracedScheduleOnce(argv)
    \/ \E h \in pendingFrames : TracedFrame(h)
    \/ \E dt \in Durations : DiagnosedReturn(dt)
    \/ \E dt \in Durations : DiagnosedRaise(dt)

DiagnosticsSpec == Init /\ [][DiagnosticsNext]_vars

TypeOK ==
    /\ _currentInstance \in 0..MaxFrames
    /\ pendingFrames \subseteq 1..MaxFrames
    /\ pc \in {"idle", "exec"}
    /\ Len(admissions) <= MaxCalls

\* ------------------- waitFor alone: one call, the host calling what it was
\* handed in any order, a conditional that returns or throws any value.

WaitNext ==
    \/ \E wait \in Waits, timeout \in Timeouts : waitFor(wait, timeout)
    \/ checkConditional
    \/ timeoutElapsed

WaitInit == Init /\ onError = "null" /\ environment = "production"

WaitSpec == WaitInit /\ [][WaitNext]_vars

\* ------------------------------------------------------------ properties

\* The task of a record: its target, its callable and its arguments.
Task(r) == <<r.target, r.method, r.args>>

\* The ids of the entries of a sequence of entries or executions.
Ids(seq) == [k \in DOMAIN seq |-> seq[k].id]

\* The entries executed, being executed and pending, in that order.
Order == Ids(executed) \o (IF pc = "exec" THEN <<cur.id>> ELSE <<>>) \o Ids(_tasks)

\* The positions of entry id in Order.
Positions(id) == {k \in DOMAIN Order : Order[k] = id}

\* The executions of entry id.
Executions(id) == {k \in DOMAIN executed : executed[k].id = id}

\* The calls that created or rewrote entry id.
Calls(id) == {i \in DOMAIN admissions : admissions[i].id = id}

\* The last call that created or rewrote entry id.
LastCall(id) == CHOOSE i \in Calls(id) : \A j \in Calls(id) : j <= i

\* The number of entries of tasks for a target and a callable.
Count(tasks, target, method) ==
    Cardinality({k \in DOMAIN tasks : Matches(tasks[k], target, method)})

\* The entries of tasks for other pairs than the target and the callable.
Others(tasks, target, method) ==
    SelectSeq(tasks, LAMBDA entry : ~Matches(entry, target, method))

Idle == _tasks = <<>> /\ _currentInstance = 0 /\ pendingFrames = {} /\ pc = "idle"

\* C1: when only plain schedule calls were made, the k-th execution is the
\* execution of the k-th admitted task, in one frame or over several.
C1_FIFO ==
    (\A i \in DOMAIN admissions : ~admissions[i].once)
    => \A k \in DOMAIN executed :
          executed[k].id = k /\ Task(executed[k]) = Task(admissions[k])

C1_Witness ==
    /\ \A i \in DOMAIN admissions : ~admissions[i].once
    /\ Len(executed) = 3
    /\ executed[1].frame = executed[2].frame
    /\ executed[2].frame # executed[3].frame
    /\ Task(executed[1]) # Task(executed[2])
    /\ Task(executed[2]) # Task(executed[3])

\* C2: with a finite number of schedule and scheduleOnce calls, no cancel, no
\* teardown and a host that fires every frame it was asked for, every admitted
\* task is eventually executed and the scheduler ends up idle.
C2_Liveness ==
    <>[](Idle /\ \A i \in DOMAIN admissions : Executions(admissions[i].id) # {})

\* C3: after cancel(T, M) no entry of the queue has target T and callable M.
C3_CancelRemovesAll ==
    [][\A argv \in CancelArgvs :
          Cancel(argv) =>
              Count(_tasks', _sliceArguments(argv).target, _sliceArguments(argv).method) = 0]_vars

\* C4: cancel(T, M) leaves the entries of every other pair in the queue, in
\* the same order.
C4_CancelRemovesOnly ==
    [][\A argv \in CancelArgvs :
          Cancel(argv) =>
              Others(_tasks', _sliceArguments(argv).target, _sliceArguments(argv).method)
              = Others(_tasks, _sliceArguments(argv).target, _sliceArguments(argv).method)]_vars

\* C5: two scheduleOnce calls i < j for one pair, the second made while the
\* entry of the first is pending, make one entry: it is pending or executed
\* exactly once, it carries the arguments of the last call that rewrote it,
\* and it keeps the place of the first call, before every entry admitted
\* after that call.
C5_Throttle ==
    \A i, j \in DOMAIN admissions :
        (i < j /\ admissions[i].once /\ admissions[j].once
               /\ admissions[i].id = admissions[j].id)
        => LET id == admissions[i].id
           IN  /\ Cardinality(Positions(id)) = 1
               /\ \A k \in DOMAIN executed :
                      executed[k].id = id
                      => executed[k].args = admissions[LastCall(id)].args
               /\ \A k \in DOMAIN _tasks :
                      _tasks[k].id = id
                      => _tasks[k].args = admissions[LastCall(id)].args
               /\ \A other \in DOMAIN admissions :
                      (i < other /\ admissions[other].id = other)
                      => \A p \in Positions(id), q \in Positions(other) : p < q

C5_Witness ==
    /\ Len(admissions) = 3
    /\ admissions[1].once /\ admissions[3].once
    /\ admissions[3].id = 1 /\ admissions[2].id = 2
    /\ admissions[1].args # admissions[3].args
    /\ Len(executed) = 2
    /\ executed[1].id = 1 /\ executed[1].args = admissions[3].args
    /\ executed[2].id = 2

\* C6 as stated: after a scheduleOnce(T, M, ...) call there is at most one
\* pending (T, M) entry, whatever the queue was.
C6_AtMostOne ==
    [][\A argv \in OnceArgvs :
          TracedScheduleOnce(argv) =>
              Count(_tasks', _sliceArguments(argv).target, _sliceArguments(argv).method) <= 1]_vars

\* C6 amended: a scheduleOnce(T, M, ...) call leaves one pending (T, M) entry
\* when there was none or one before it, and otherwise as many as there
\* were: it never adds a second entry and never removes one.
C6_NoSecondEntry ==
    [][\A argv \in OnceArgvs :
          TracedScheduleOnce(argv) =>
              LET p == _sliceArguments(argv)
                  before == Count(_tasks, p.target, p.method)
              IN  Count(_tasks', p.target, p.method) = IF before = 0 THEN 1 ELSE before]_vars

C6_Witness ==
    /\ Len(admissions) = 2
    /\ admissions[1].once /\ admissions[2].once
    /\ admissions[2].id = 1
    /\ admissions[1].args # admissions[2].args
    /\ Len(_tasks) = 1
    /\ _tasks[1].args = admissions[2].args

\* C7: two plain schedule calls i < j for one pair make two entries, each
\* pending or executed exactly once with the arguments of its own call
\* (unless a scheduleOnce rewrote it), the first executed before the second.
C7_NoDedup ==
    \A i, j \in DOMAIN admissions :
        (i < j /\ ~admissions[i].once /\ ~admissions[j].once
               /\ admissions[i].target = admissions[j].target
               /\ admissions[i].method = admissions[j].method)
        => /\ admissions[i].id = i /\ admissions[j].id = j
           /\ Cardinality(Positions(i)) = 1
           /\ Cardinality(Positions(j)) = 1
           /\ \A p \in Positions(i), q \in Positions(j) : p < q
           /\ \A n \in {i, j}, k \in DOMAIN executed :
                  (executed[k].id = n /\ Calls(n) = {n})
                  => Task(executed[k]) = Task(admissions[n])

C7_Witness ==
    /\ Len(admissions) = 2
    /\ ~admissions[1].once /\ ~admissions[2].once
    /\ admissions[1].target = admissions[2].target
    /\ admissions[1].method = admissions[2].method
    /\ Len(executed) = 2
    /\ executed[1].args = <<"a">>
    /\ executed[2].args = <<"b">>

\* C8: when a task raises and the error hook is unset or returns, the entry
\* is consumed and the drain goes on: with entries left in the queue, either
\* the next one is called in the same frame callback or the queue is kept
\* whole and a frame callback is outstanding for it.
C8_RaiseDoesNotBlock ==
    [][\A dt \in Durations :
          (TracedRaise(dt) /\ onError # "rethrows") =>
              /\ cur.id \notin {_tasks'[k].id : k \in DOMAIN _tasks'}
              /\ Len(hookCalls') = Len(hookCalls) + (IF onError = "null" THEN 0 ELSE 1)
              /\ IF _tasks = <<>>
                 THEN pc' = "idle" /\ _tasks' = <<>>
                 ELSE \/ pc' = "exec" /\ cur' = Head(_tasks) /\ _tasks' = Tail(_tasks)
                      \/ /\ pc' = "idle" /\ _tasks' = _tasks
                         /\ _currentInstance' # 0
                         /\ _currentInstance' \in pendingFrames']_vars

C8_Witness ==
    /\ onError = "null"
    /\ Len(executed) = 3
    /\ executed[1].outcome = "raised"
    /\ executed[2].outcome = "returned"
    /\ executed[1].frame = executed[2].frame
    /\ executed[2].frame # executed[3].frame
    /\ hookCalls = <<>>

\* The executions that raised.
Raised == SelectSeq(executed, LAMBDA r : r.outcome = "raised")

\* C9: the error hook, when one is set, is invoked once for each execution
\* that raised and for no other, with the error of that execution and the
\* stack of the last call that wrote the entry.
C9_HookOncePerRaise ==
    IF onError = "null" THEN hookCalls = <<>>
    ELSE /\ Len(hookCalls) = Len(Raised)
         /\ \A k \in DOMAIN hookCalls :
                /\ hookCalls[k].error = Raised[k].id
                /\ hookCalls[k].stack = admissions[LastCall(Raised[k].id)].stack

C9_Witness ==
    /\ onError = "returns"
    /\ environment = "development"
    /\ Len(executed) = 2
    /\ executed[1].outcome = "returned"
    /\ executed[2].outcome = "raised"
    /\ Calls(executed[2].id) = {2, 3}
    /\ hookCalls = <<[error |-> 2, stack |-> 3]>>

\* C10: after a task failed, whatever the error hook does, the entries still
\* queued are run: while the queue is not empty and no frame callback is
\* running, a frame callback is outstanding and the handle refers to it.
C10_QueuedTasksStillRun ==
    (pc = "idle" /\ _tasks # <<>>)
    => (_currentInstance # 0 /\ _currentInstance \in pendingFrames)

\* The entry of call i is in the queue.
Pending(id) == \E k \in DOMAIN _tasks : _tasks[k].id = id

\* A frame callback of the service is on its way and the handle refers to it.
FrameOutstanding == _currentInstance # 0 /\ _currentInstance \in pendingFrames

\* The entry of a schedule call made by a task body is executed, running or
\* pending exactly once, behind the entry of every earlier call; while it is
\* pending a drain is running or a frame callback is outstanding; it runs
\* in the frame callback of the call or in a later one, and in that of the
\* call only when it started under the budget.
ReentrantKept ==
    \A i \in DOMAIN admissions :
        admissions[i].inTask
        => LET id == admissions[i].id
           IN  /\ Cardinality(Positions(id)) = 1
               /\ \A j \in 1..(i - 1) :
                      \A p \in Positions(admissions[j].id), q \in Positions(id) : p < q
               /\ Pending(id) => (pc = "exec" \/ FrameOutstanding)
               /\ \A k \in DOMAIN executed :
                      executed[k].id = id => executed[k].frame >= admissions[i].frame
               /\ (pc = "exec" /\ cur.id = id /\ fired = admissions[i].frame)
                  => Under(elapsed, millisecondsPerFrame)

\* When a task ends under the budget and the next entry of the queue is
\* one a task body scheduled during this frame callback, that entry runs
\* in this frame callback.
ReentrantSameFrame ==
    \A dt \in Durations :
        ( /\ TracedReturn(dt) \/ TracedRaise(dt)
          /\ _tasks # <<>>
          /\ Under(elapsed + dt, millisecondsPerFrame)
          /\ \E i \in DOMAIN admissions :
                 /\ admissions[i].id = Head(_tasks).id
                 /\ admissions[i].inTask
                 /\ admissions[i].frame = fired )
        => (pc' = "exec" /\ cur' = Head(_tasks) /\ fired' = fired)

\* C11: a task that calls schedule from within its own execution never
\* loses the new task: the entry is appended behind the entries queued at
\* that moment and runs in the same frame callback if the budget is not
\* exceeded when its turn comes, in a later frame callback otherwise.
C11_ReentrantSchedule == []ReentrantKept /\ [][ReentrantSameFrame]_vars

\* C12: a task that cancels, from within its own execution, a task that has
\* not run yet keeps that task from ever running: after the call no entry of
\* the cancelled pair is left in the queue for the loop to shift.  When the
\* call empties the queue the handle is cleared, and the frame callback ends
\* after the running task without shifting an entry, requesting a frame or
\* failing an assertion.
C12_CancelInTask ==
    [][/\ \A argv \in CancelArgvs :
             (Cancel(argv) /\ pc = "exec")
             => /\ Count(_tasks', _sliceArguments(argv).target, _sliceArguments(argv).method) = 0
                /\ _tasks' = <<>> => _currentInstance' = 0
                /\ pc' = "exec" /\ cur' = cur
       /\ \A dt \in Durations :
             ((Return(dt) \/ Raise(dt)) /\ _tasks = <<>> /\ _currentInstance = 0)
             => /\ pc' = "idle" /\ _tasks' = <<>> /\ _currentInstance' = 0
                /\ pendingFrames' = pendingFrames /\ assertFailed' = "none"]_vars

\* C13: a host frame callback is never double-requested: in every reachable
\* state at most one frame callback requested by the service is
\* outstanding.
C13_NoDoubleRequest == Cardinality(pendingFrames) <= 1

\* C14: while the service is not torn down, the handle is non-null if and
\* only if a frame callback is outstanding or a drain is in progress, and
\* whenever a frame callback is outstanding the handle refers to it.
C14_HandleIffActive ==
    ~isDestroyed
    => /\ (_currentInstance # 0) <=> (pendingFrames # {} \/ pc = "exec")
       /\ pendingFrames # {} => _currentInstance \in pendingFrames

\* C15: a cancel that empties the queue releases the outstanding frame
\* callback and clears the handle: no frame callback of the service is
\* left to fire, and the task that is running, if any, is not touched.
C15_CancelEmptiesReleases ==
    [][\A argv \in CancelArgvs :
          (Cancel(argv) /\ _tasks # <<>> /\ _tasks' = <<>>)
          => /\ pendingFrames' = {}
             /\ _currentInstance' = 0
             /\ pc' = pc /\ cur' = cur]_vars

\* C16: a cancel that removes nothing leaves the handle and the outstanding
\* frame callbacks as they were, between frames and within a task.
C16_NoOpCancel ==
    [][\A argv \in CancelArgvs :
          (Cancel(argv) /\ _tasks' = _tasks)
          => UNCHANGED <<_currentInstance, pendingFrames>>]_vars

\* C17: a schedule or scheduleOnce call from which no callable can be
\* resolved fails at once: _sliceArguments throws, nothing is enqueued, and
\* the queue, the handle and the outstanding frame requests are unchanged.
C17_AdmissionFailsFast ==
    [][\A argv \in BadArgvs :
          (Admit(argv) \/ AdmitOnce(argv))
          => /\ assertFailed' = "_sliceArguments"
             /\ UNCHANGED <<_tasks, _currentInstance, pendingFrames>>]_vars

\* C18: teardown stops the drain.  On a service that is torn down a frame
\* callback that fires returns without touching the queue, and a task that
\* ends is followed by no other: the callback returns with the queue as it
\* is, and requests no frame.  A teardown during a task leaves the task
\* running.  As only these steps shift entries, no queued entry is executed
\* once the service is torn down.
C18_TeardownStopsDrain ==
    [][/\ (isDestroyed /\ pc = "idle")
          => \A h \in pendingFrames :
                Frame(h)
                => /\ pc' = "idle" /\ cur' = NoTask /\ _tasks' = _tasks
                   /\ _currentInstance' = _currentInstance
                   /\ pendingFrames' = pendingFrames \ {h}
       /\ (isDestroyed /\ pc = "exec")
          => \A dt \in Durations :
                (Return(dt) \/ Raise(dt))
                => /\ pc' = "idle" /\ cur' = NoTask /\ _tasks' = _tasks
                   /\ UNCHANGED <<_currentInstance, pendingFrames>>
       /\ (~isDestroyed /\ pc = "exec" /\ isDestroyed')
          => pc' = "exec" /\ cur' = cur /\ _tasks' = _tasks
       /\ isDestroyed => isDestroyed']_vars

\* The service is torn down with two entries queued; the frame callback it
\* had requested has fired, or the task that was running has ended, and the
\* entries are still queued with no frame callback requested.
C18_Witness ==
    /\ isDestroyed
    /\ onError = "null"
    /\ pc = "idle"
    /\ Len(_tasks) = 2
    /\ pendingFrames = {}
    /\ _currentInstance # 0

\* The running task is the first of its frame callback.
FirstOfFrame == executed = <<>> \/ executed[Len(executed)].frame # fired

\* C19 as stated: tasks whose execution time adds up to less than the
\* budget all run in one frame callback, and tasks whose execution time
\* adds up to more than the budget take two frame callbacks at least.  When
\* the first task of a callback returns, the execution time so far is its
\* duration dt; when a later one returns, it is dt at least.
C19_BudgetAsStated ==
    [][\A dt \in Durations :
          TracedReturn(dt)
          => /\ (FirstOfFrame /\ Under(dt, millisecondsPerFrame) /\ _tasks # <<>>)
                => (pc' = "exec" /\ fired' = fired)
             /\ ~FirstOfFrame => dt * millisecondsPerFrame.den <= millisecondsPerFrame.num
             /\ pc' = "idle" => (hasPendingTasks' <=> _tasks' # <<>>)]_vars

\* C19 amended: the budget is compared with the time since the time stamp
\* of the frame, when a task has ended.  After a task that returns with
\* entries left, the next entry runs in the same frame callback if that
\* time is under the budget; otherwise the callback ends with the queue
\* whole, hasPendingTasks() true and a frame callback requested.  After a
\* task that returns with the queue empty the callback ends and
\* hasPendingTasks() is false.
C19_SoftBudget ==
    [][\A dt \in Durations :
          TracedReturn(dt)
          => IF _tasks = <<>>
             THEN pc' = "idle" /\ ~hasPendingTasks'
             ELSE IF Under(elapsed + dt, millisecondsPerFrame)
             THEN pc' = "exec" /\ cur' = Head(_tasks) /\ fired' = fired
             ELSE /\ pc' = "idle" /\ _tasks' = _tasks /\ hasPendingTasks'
                  /\ FrameOutstanding']_vars

\* Two tasks returned in one frame callback and a third one in a later
\* frame callback, and the queue is drained.
C19_Witness ==
    /\ Len(executed) = 3
    /\ \A k \in 1..3 : executed[k].outcome = "returned"
    /\ executed[1].frame = executed[2].frame
    /\ executed[2].frame < executed[3].frame
    /\ pc = "idle"
    /\ ~hasPendingTasks
    /\ Idle

\* C20: hasPendingTasks() is false when the queue is empty and true
\* otherwise, whether a frame callback is outstanding or running or not: it
\* is false on a service just created and true when a schedule call has
\* returned.
C20_HasPendingTasks ==
    /\ [](hasPendingTasks <=> _tasks # <<>>)
    /\ [][~hasPendingTasks' => \A argv \in Argvs : ~Schedule(argv)]_vars

\* The last task of the queue is running: the handle is set and
\* hasPendingTasks() is false.
C20_Witness ==
    /\ pc = "exec"
    /\ _currentInstance # 0
    /\ _tasks = <<>>
    /\ ~hasPendingTasks

\* The number of times x occurs in seq.
Occurrences(seq, x) == Cardinality({k \in DOMAIN seq : seq[k] = x})

\* item is the entry e in the form [target, callable, args], whatever
\* follows the arguments.
IsEntry(item, e) ==
    /\ Len(item) >= 3
    /\ item[1] = e.target /\ item[2] = e.method /\ item[3] = e.args

\* C21: the value cancel returns has one item for each entry that was
\* pending before the call and is not pending after it, each item being
\* that entry in the form [target, callable, args].
C21_CancelReturn ==
    [][\A argv \in CancelArgvs :
         Cancel(argv) =>
           LET ret == cancelReturn(_tasks, argv)
           IN  /\ Len(ret) = Len(_tasks) - Len(_tasks')
               /\ \A k \in DOMAIN _tasks :
                     Cardinality({i \in DOMAIN ret : IsEntry(ret[i], _tasks[k])})
                       = Occurrences(_tasks, _tasks[k]) - Occurrences(_tasks', _tasks[k])]_vars

\* The (target, method) pair was executed: a task body of it has ended.
Executed(target, method) ==
    \E k \in DOMAIN executed :
      executed[k].target = target /\ executed[k].method = method

\* No entry of the (target, method) pair is in the queue.
NonePending(target, method) ==
    \A k \in DOMAIN _tasks :
      _tasks[k].target # target \/ _tasks[k].method # method

C23_OnceOverPlain ==
    \A i, j \in DOMAIN admissions :
        (i < j /\ ~admissions[i].once /\ admissions[j].once
               /\ admissions[j].id = i)
        => /\ Task(admissions[i])[1] = Task(admissions[j])[1]
           /\ Task(admissions[i])[2] = Task(admissions[j])[2]
           /\ Positions(j) = {}
           /\ Cardinality(Positions(i)) = 1
           /\ Cardinality(Executions(i)) <= 1
           /\ j = LastCall(i)
              => /\ \A k \in Executions(i) : executed[k].args = admissions[j].args
                 /\ \A k \in DOMAIN _tasks :
                       _tasks[k].id = i => _tasks[k].args = admissions[j].args

\* schedule(T, 'm', a) then scheduleOnce(T, 'm', b) with another argument,
\* and the only execution there was is the one of the entry of the first
\* call, with b.
C23_Witness ==
    /\ Len(admissions) = 2
    /\ ~admissions[1].once /\ admissions[2].once
    /\ admissions[2].id = 1
    /\ admissions[1].args # admissions[2].args
    /\ Len(executed) = 1
    /\ executed[1].id = 1 /\ executed[1].args = admissions[2].args
    /\ Idle

C25_FunctionFirst ==
    [][\A argv \in FunctionArgvs :
         /\ Admit(argv)
            => /\ Len(_tasks') = Len(_tasks) + 1
               /\ _tasks'[Len(_tasks')].target = NULL
               /\ _tasks'[Len(_tasks')].method = argv[1]
         /\ AdmitOnce(argv)
            => \E k \in DOMAIN _tasks' :
                 _tasks'[k].target = NULL /\ _tasks'[k].method = argv[1]]_vars

\* The configured rate: the FPS property, the default when it is unset.
Rate == IF FPS = 0 THEN DefaultFPS ELSE FPS

\* C26: the budget times the configured rate is MILLISECONDS, with the
\* default rate when none is set; and when a task returns with entries
\* left, the next one starts in the same frame callback if and only if the
\* time elapsed is under MILLISECONDS / rate for the rate that was
\* configured when the callback started.
C26_Budget ==
    /\ [](millisecondsPerFrame.num * Rate = MILLISECONDS * millisecondsPerFrame.den)
    /\ [][\A dt \in Durations :
           (TracedReturn(dt) /\ _tasks # <<>>)
           => (pc' = "exec" <=> (elapsed + dt) * Rate < MILLISECONDS)]_vars

\* The rate was set to 30 and, in the running frame callback, a task has
\* ended and the next one was started 20 ms after the frame's time stamp:
\* past the budget of the default rate, under the one of rate 30.
C26_Witness ==
    /\ FPS = 30
    /\ pc = "exec"
    /\ elapsed = 20
    /\ executed # <<>>
    /\ executed[Len(executed)].frame = fired

\* C27: a schedule or scheduleOnce call requests one frame callback and
\* stores its id in the handle when the handle is null, and leaves the
\* handle and the outstanding requests alone when it is not; a call made
\* by a task body requests none.
C27_FrameOnSchedule ==
    [][\A argv \in Argvs :
         (Schedule(argv) \/ ScheduleOnce(argv))
         => /\ IF _currentInstance = 0
               THEN /\ _currentInstance' \notin pendingFrames \cup {0}
                    /\ pendingFrames' = pendingFrames \cup {_currentInstance'}
               ELSE UNCHANGED <<_currentInstance, pendingFrames>>
            /\ pc = "exec" => pendingFrames' = pendingFrames]_vars

\* A frame callback finishes: a task body ends and _loop is left.
Finishes ==
    /\ pc = "exec" /\ pc' = "idle"
    /\ \E dt \in Durations : Return(dt) \/ Raise(dt)

\* C28: when a frame callback finishes on a service that is not torn down
\* with entries left, one frame callback is requested and the handle holds
\* its id; when it finishes with the queue empty, the handle is null and no
\* frame callback is outstanding.  Between frame callbacks, with the queue
\* empty, no frame callback is outstanding.
C28_FrameFinish ==
    /\ []((pc = "idle" /\ _tasks = <<>> /\ ~isDestroyed) => pendingFrames = {})
    /\ [][(Finishes /\ ~isDestroyed)
          => IF _tasks' # <<>>
             THEN /\ _currentInstance' \notin pendingFrames \cup {0}
                  /\ pendingFrames' = pendingFrames \cup {_currentInstance'}
             ELSE _currentInstance' = 0 /\ pendingFrames' = {}]_vars

\* C29: a frame callback that starts on a service that is not torn down
\* with a non-empty queue shifts the first entry and runs it, whatever the
\* time elapsed; while a task body runs, nothing but its end changes the
\* running task; and when the end of a task body starts the next entry,
\* the queue was not empty, the service is not torn down and the time
\* elapsed since the frame's time stamp is under the budget.
C29_SoftGate ==
    /\ [][\A h \in pendingFrames :
           (pc = "idle" /\ ~isDestroyed /\ _tasks # <<>> /\ Frame(h))
           => pc' = "exec" /\ cur' = Head(_tasks) /\ _tasks' = Tail(_tasks)]_vars
    /\ [][pc = "exec"
          => \/ pc' = "exec" /\ cur' = cur /\ elapsed' = elapsed
             \/ \E dt \in Durations : Return(dt) \/ Raise(dt)]_vars
    /\ [][(pc = "exec" /\ pc' = "exec" /\ \E dt \in Durations : Return(dt) \/ Raise(dt))
          => /\ _tasks # <<>> /\ cur' = Head(_tasks) /\ _tasks' = Tail(_tasks)
             /\ ~isDestroyed
             /\ elapsed' * Rate < MILLISECONDS]_vars

\* A task body is running although the time elapsed since the frame's time
\* stamp is not under the budget: it is the first one of a frame callback
\* that started late.
C29_Witness ==
    /\ pc = "exec"
    /\ ~isDestroyed
    /\ elapsed * Rate >= MILLISECONDS

\* The indexes of the entries of the queue with the target and the
\* resolved callable of the argument list.
Duplicates(argv) ==
    {k \in DOMAIN _tasks :
       /\ _tasks[k].target = _sliceArguments(argv).target
       /\ _tasks[k].method = _sliceArguments(argv).method}

\* C30: a scheduleOnce call that finds a duplicate leaves the queue as
\* long as it was, with every entry where it was and, but for the first
\* duplicate, as it was; the first duplicate keeps its target and its
\* callable and takes the arguments and the stack of the call.  A call
\* that finds none leaves the queue as a prefix of the new one, which has
\* one entry more: the task of the call.
C30_OnceFrame ==
    [][\A argv \in OnceArgvs :
         TracedScheduleOnce(argv)
         => IF Duplicates(argv) # {}
            THEN LET i == CHOOSE k \in Duplicates(argv) : \A d \in Duplicates(argv) : k <= d
                 IN  /\ Len(_tasks') = Len(_tasks)
                     /\ \A k \in DOMAIN _tasks : k # i => _tasks'[k] = _tasks[k]
                     /\ _tasks'[i].target = _tasks[i].target
                     /\ _tasks'[i].method = _tasks[i].method
                     /\ _tasks'[i].id = _tasks[i].id
                     /\ _tasks'[i].args = Params(argv).args
                     /\ _tasks'[i].stack = Params(argv).stack
            ELSE /\ Len(_tasks') = Len(_tasks) + 1
                 /\ SubSeq(_tasks', 1, Len(_tasks)) = _tasks
                 /\ Task(_tasks'[Len(_tasks')]) = Task(Params(argv))]_vars

\* A scheduleOnce call found its duplicate behind another entry: the queue
\* holds the two entries in the order they were made, the second one with
\* the arguments and the stack of the third call.
C30_Witness ==
    /\ Len(admissions) = 3
    /\ admissions[3].once /\ admissions[3].id = 2
    /\ admissions[3].args # admissions[2].args
    /\ Len(_tasks) = 2
    /\ _tasks[1].id = 1 /\ _tasks[2].id = 2
    /\ _tasks[2].args = admissions[3].args
    /\ _tasks[2].stack = admissions[3].stack

\* C31: no assertion of the frame lifecycle fails: _next is not reached
\* with a null handle and no frame callback starts on a service that is
\* not torn down with an empty queue.  (_begin and _end are called under
\* a test of the handle, and _next under a test of the queue.)
C31_AssertionsHold == assertFailed \notin {"_next", "_loop"}

\* The entry that is running is an entry of the pair of the argument list.
Running(argv) ==
    /\ pc = "exec"
    /\ cur.target = _sliceArguments(argv).target
    /\ cur.method = _sliceArguments(argv).method

\* C32: a scheduleOnce call for a pair whose entry is running, or was
\* executed, and of which no other entry is pending appends an entry of
\* its own at the tail and leaves the queued entries, the running task and
\* the executions as they are; and every entry made is pending, running or
\* executed, exactly once.
C32_PendingWindow ==
    /\ [](\A i \in DOMAIN admissions :
            admissions[i].id = i => Cardinality(Positions(i)) = 1)
    /\ [][\A argv \in IdentityArgvs :
           (/\ Running(argv) \/ Executed(_sliceArguments(argv).target,
                                          _sliceArguments(argv).method)
            /\ \A k \in Duplicates(argv) : pc = "exec" /\ _tasks[k].id = cur.id
            /\ IdentityScheduleOnce(argv))
           => /\ Len(_tasks') = Len(_tasks) + 1
              /\ SubSeq(_tasks', 1, Len(_tasks)) = _tasks
              /\ _tasks'[Len(_tasks')].id = Len(admissions) + 1
              /\ Task(_tasks'[Len(_tasks')]) = Task(Params(argv))
              /\ UNCHANGED <<pc, cur, executed>>]_vars

\* The entry of the first call is running and the second call, a
\* scheduleOnce of the same pair, has made the entry that is in the queue.
C32_Witness ==
    /\ Len(admissions) = 2
    /\ admissions[1].once /\ admissions[2].once
    /\ admissions[1].id = 1 /\ admissions[2].id = 2
    /\ Task(admissions[1])[1] = Task(admissions[2])[1]
    /\ Task(admissions[1])[2] = Task(admissions[2])[2]
    /\ pc = "exec" /\ cur.id = 1
    /\ Len(_tasks) = 1 /\ _tasks[1].id = 2

\* The entries in the array cancel(argv) returns, whatever array holds
\* them, in the order cancel removed them.
RECURSIVE Flatten(_)
Flatten(items) ==
    IF items = <<>> THEN <<>> ELSE Head(items) \o Flatten(Tail(items))

\* C33: a cancel call made by a task body for the pair of the running
\* task leaves the running task as it is, returns entries of that pair
\* only, and takes out of the queue the entries it returns and no other.
C33_CancelByRunningTask ==
    [][\A argv \in CancelArgvs :
         (Running(argv) /\ Cancel(argv))
         => LET p == _sliceArguments(argv)
                ret == Flatten(cancelReturn(_tasks, argv))
            IN  /\ UNCHANGED drain
                /\ \A i \in DOMAIN ret :
                      ret[i][1] = p.target /\ ret[i][2] = p.method
                /\ \A k \in DOMAIN _tasks :
                      Occurrences(_tasks', _tasks[k])
                        = Occurrences(_tasks, _tasks[k])
                          - Occurrences(ret, entryArray(_tasks[k]))]_vars

\* The entry is in the queue.
Queued(tasks, entry) == \E k \in DOMAIN tasks : tasks[k].id = entry.id

\* C34: no entry is executed twice or is at two places at once, and an
\* entry leaves the queue only to be run by the frame callback or by a
\* cancel call for its target and its callable.
C34_OncePerAdmission ==
    /\ [](\A i \in DOMAIN admissions :
            Cardinality(Positions(i)) <= 1 /\ Cardinality(Executions(i)) <= 1)
    /\ [][\A k \in DOMAIN _tasks :
           ~Queued(_tasks', _tasks[k])
           => \/ pc' = "exec" /\ cur' = _tasks[k] /\ cur' # cur
              \/ \E argv \in CancelArgvs :
                   /\ _tasks[k].target = _sliceArguments(argv).target
                   /\ _tasks[k].method = _sliceArguments(argv).method
                   /\ TracedCancel(argv)]_vars

\* C35: while no frame callback is running, a frame callback is
\* outstanding when the service is not torn down and the queue is not
\* empty, and none is outstanding when the queue is empty.
C35_NothingStranded ==
    pc = "idle"
    => /\ (~isDestroyed /\ _tasks # <<>>) => pendingFrames # {}
       /\ _tasks = <<>> => pendingFrames = {}

\* The run loops that the executions opened and did not close.
RECURSIVE OpenRunLoops(_)
OpenRunLoops(seq) ==
    IF seq = <<>> THEN 0
    ELSE OpenRunLoops(Tail(seq))
         + Cardinality({c \in DOMAIN Head(seq).run : Head(seq).run[c] = "begin"})
         - Cardinality({c \in DOMAIN Head(seq).run : Head(seq).run[c] = "end"})

\* C36: every task body executed was run between one run.begin() and one
\* run.end(), whether it returned or raised, and no run loop opened for a
\* task is open once its execution is over.
C36_RunLoopScope ==
    /\ \A k \in DOMAIN executed : executed[k].run = <<"begin", "end">>
    /\ OpenRunLoops(executed) = 0

\* An entry and a queue without the stacks.
Bare(entry) == [entry EXCEPT !.stack = 0]
BareQueue(tasks) == [k \in DOMAIN tasks |-> Bare(tasks[k])]

\* Every step does to the queue without its stacks what it does in
\* production, where no stack is captured: the stacks are carried along
\* and never read.
SameWithoutStacks ==
    /\ \A argv \in Argvs :
         TracedSchedule(argv)
         => BareQueue(_tasks') = push(BareQueue(_tasks), Bare(Params(argv)))
    /\ \A argv \in OnceArgvs :
         TracedScheduleOnce(argv)
         => BareQueue(_tasks') = _pushUnique(BareQueue(_tasks), Bare(Params(argv)))
    /\ (pc' = "exec" /\ cur' # cur)
       => /\ Bare(cur') = shift(BareQueue(_tasks)).entry
          /\ BareQueue(_tasks') = shift(BareQueue(_tasks)).rest

\* C37: in both environments every step is the step of production but
\* for the stacks; in production no entry has a stack and no warning is
\* logged; in development every entry has the stack of the call that made
\* or rewrote it and a warning is logged for exactly the executions whose
\* duration is not under the budget.
C37_Diagnostics ==
    /\ [][SameWithoutStacks]_vars
    /\ [](environment = "production"
          => /\ \A k \in DOMAIN _tasks : _tasks[k].stack = 0
             /\ \A k \in DOMAIN executed :
                   executed[k].stack = 0 /\ ~executed[k].warned)
    /\ [](environment = "development"
          => /\ \A k \in DOMAIN _tasks : _tasks[k].stack = LastCall(_tasks[k].id)
             /\ \A k \in DOMAIN executed :
                   executed[k].warned
                   <=> executed[k].duration * Rate >= MILLISECONDS)

\* The last evaluation of the conditional.
LastPoll == polls[Len(polls)]

\* A step in which the conditional is evaluated.
Polled == polls' # polls

\* C38: the call of waitFor does not evaluate the conditional; only a call
\* of checkConditional by the host does, once, and only while the promise
\* is pending; an evaluation that returns a truthy value resolves the
\* promise with it, one that throws rejects the promise with what was
\* thrown, and any other leaves the promise pending with the next
\* checkConditional handed to the host.
C38_PollsUntilSettled ==
    [][/\ waiter.promise.state = "none" => ~Polled
       /\ Polled
          => /\ polls' = Append(polls, LastPoll')
             /\ waiter.tick # "none"
             /\ waiter.promise.state = "pending"
             /\ IF LastPoll'.kind = "throw"
                THEN /\ waiter'.promise = [state |-> "rejected", value |-> LastPoll'.value]
                     /\ waiter'.tick = "none"
                ELSE IF LastPoll'.value \in {"true", "ready"}
                     THEN /\ waiter'.promise = [state |-> "fulfilled", value |-> LastPoll'.value]
                          /\ waiter'.tick = "none"
                     ELSE /\ waiter'.promise = waiter.promise
                          /\ waiter'.tick # "none"]_vars

\* A step in which the host calls the function of the timer of the timeout.
TimeoutElapses == waiter.timer /\ ~waiter'.timer

\* The promise is resolved or rejected.
Settled(promise) == promise.state \in {"fulfilled", "rejected"}

\* The error of the timeout.
TimeoutError == [state |-> "rejected", value |-> "timeout"]

\* C39 as stated: when the timeout elapses and the conditional has not
\* returned a truthy value before, the promise is rejected with the timeout
\* error.
C39_TimeoutAsStated ==
    [][(TimeoutElapses /\ waiter.promise.state # "fulfilled")
       => waiter'.promise = TimeoutError]_vars

\* C39: when the timeout elapses while the promise is pending, the promise
\* is rejected with the timeout error; the conditional is never evaluated
\* once the timeout has elapsed; with timeout 0 no timer is started and the
\* promise is never rejected with the timeout error; a promise that is
\* resolved or rejected keeps its state and value in every later step, the
\* one of the timeout included.
C39_TimeoutSettlesOnce ==
    /\ [](waiter.timeout = 0
          => /\ ~waiter.timer
             /\ ~waiter.cancel
             /\ waiter.promise # TimeoutError)
    /\ [][/\ (TimeoutElapses /\ waiter.promise.state = "pending")
             => waiter'.promise = TimeoutError
          /\ waiter.cancel => ~Polled
          /\ Settled(waiter.promise) => waiter'.promise = waiter.promise]_vars

\* The timeout has elapsed after evaluations that settled nothing, and the
\* checkConditional that was pending was called since.
C39_Witness ==
    /\ waiter.promise = TimeoutError
    /\ polls # <<>>
    /\ waiter.tick = "none"

\* The timeout has elapsed after the promise was resolved.
C39_ResolvedBeforeTimeout ==
    /\ waiter.promise.state = "fulfilled"
    /\ waiter.cancel

====
